---- MODULE Spec2Model ----
(***************************************************************************)
(* Model of the RAG PDF Query Manual session: the App component's React    *)
(* state (documentLoaded, documentTitle, pdfImages, vectorStore,           *)
(* chatHistory, status, error), its handlers (resetState,                  *)
(* handleFileSelect, handleTextSubmit, handleQuerySubmit), the asynchronous*)
(* flows they start (processAndIndexPdf with its timer, processAndIndexText,*)
(* queryDocument) and the service wrappers embedChunks / embedQuery.       *)
(*                                                                         *)
(* One action is one uninterrupted run of JavaScript: a UI event handler,  *)
(* or the continuation that runs when an awaited promise settles, together *)
(* with every microtask it triggers (a reject() and the catch block that   *)
(* Promise.race wakes run in the same microtask drain).  React state is    *)
(* read as of the latest render, which always precedes the next event.     *)
(* Text is a sequence of one-character strings.                            *)
(*                                                                         *)
(* Spec is the session.  SpecLive is the session with queryDocument calls  *)
(* that settle, SpecPages one binary ingestion whose canvases may yield no *)
(* 2d context, and SpecChunkText, SpecEmbedChunks, SpecRetrieval and       *)
(* SpecCosine call chunkText, embedChunks, the vector search of            *)
(* queryDocument and cosineSimilarity on their own, the variable call      *)
(* holding the arguments and the result.                                   *)
(***************************************************************************)
EXTENDS Integers, Sequences, FiniteSets, TLC

VARIABLES
    documentLoaded,   \* useState(false)
    documentTitle,    \* useState('')
    pdfImages,        \* useState<string[]>([])
    vectorStore,      \* useState<VectorStoreItem[]>([])
    chatHistory,      \* useState<ChatMessage[]>([])
    status,           \* useState('idle')
    error,            \* useState<string | null>(null)
    pdfFlows,         \* the processAndIndexPdf invocations still alive
    textFlows,        \* the processAndIndexText invocations awaiting embedChunks
    queryFlows,       \* the handleQuerySubmit invocations awaiting queryDocument
    nDocs,            \* documents submitted so far
    nQueries,         \* queries accepted so far
    lastEvent,        \* the handler or continuation that ran last
    call              \* a service function called on its own, outside a session

session == <<documentLoaded, documentTitle, pdfImages, vectorStore,
             chatHistory, status, error>>
flows == <<pdfFlows, textFlows, queryFlows>>
vars == <<documentLoaded, documentTitle, pdfImages, vectorStore, chatHistory,
          status, error, pdfFlows, textFlows, queryFlows, nDocs, nQueries,
          lastEvent, call>>

(***************************************************************************)
(* Bounds of the model.                                                    *)
(***************************************************************************)
MaxDocs == 2
MaxQueries == 1

PDF_PROCESSING_TIMEOUT == 30000

Null == "null"

(***************************************************************************)
(* Text helpers.                                                           *)
(***************************************************************************)
Rep(c, n) == [k \in 1..n |-> c]

SetMax(S) == CHOOSE x \in S : \A y \in S : y <= x
SetMin(S) == CHOOSE x \in S : \A y \in S : x <= y

\* JavaScript's \s and the characters String.prototype.trim removes
IsSpace(c) == c \in {" ", "\n", "\t"}

Trim(s) ==
    LET ns == {k \in 1..Len(s) : ~IsSpace(s[k])}
    IN  IF ns = {} THEN <<>> ELSE SubSeq(s, SetMin(ns), SetMax(ns))

RECURSIVE Join(_, _)
Join(items, sep) ==
    IF items = <<>> THEN <<>>
    ELSE IF Len(items) = 1 THEN items[1]
    ELSE items[1] \o sep \o Join(Tail(items), sep)

\* /\n\s*\n/ tried at position i: the index of the last character of the
\* match, or 0 when the expression does not match there.  \s* is greedy and
\* backtracks to the last newline of the whitespace run.
MatchEnd(t, i) ==
    IF t[i] # "\n" THEN 0
    ELSE LET run == {j \in i..Len(t) : \A k \in (i+1)..j : IsSpace(t[k])}
             nl  == {k \in (i+1)..SetMax(run) : t[k] = "\n"}
         IN  IF nl = {} THEN 0 ELSE SetMax(nl)

FirstMatch(t, p) ==
    LET ms == {i \in p..Len(t) : MatchEnd(t, i) > 0}
    IN  IF ms = {} THEN 0 ELSE SetMin(ms)

\* text.split(/\n\s*\n/), from position s on
RECURSIVE SplitFrom(_, _)
SplitFrom(t, s) ==
    LET i == FirstMatch(t, s)
    IN  IF i = 0 THEN << SubSeq(t, s, Len(t)) >>
        ELSE << SubSeq(t, s, i - 1) >> \o SplitFrom(t, MatchEnd(t, i) + 1)

Split(t) == SplitFrom(t, 1)

\* the filter keeping a paragraph of trimmed length 10 too
IsParagraph_AtLeast10(p) == Len(Trim(p)) >= 10

IsParagraph(p) == Len(Trim(p)) > 10

chunkText(text) == SelectSeq(Split(text), IsParagraph)

(***************************************************************************)
(* The documents, texts, queries and service answers the model draws from. *)
(***************************************************************************)
\* name, and per page the strings of its text items
FileA == [name |-> "a.pdf",
          pages |-> << << Rep("a", 11) >>, << Rep("b", 6), Rep("b", 5) >> >>]
\* an image-only document: one page without usable text
FileB == [name |-> "b.pdf", pages |-> << << Rep("c", 3) >> >>]
Files == {FileA, FileB}

\* three pages, the second with too little text for a chunk
FileC == [name |-> "c.pdf",
          pages |-> << << Rep("a", 11) >>, << Rep("c", 3) >>, << Rep("b", 12) >> >>]

FilePages(name) == (CHOOSE f \in Files \cup {FileC} : f.name = name).pages

\* contents of the textarea
TextTwo   == Rep("a", 11) \o <<"\n", "\n">> \o Rep("b", 12)
TextShort == <<" ">> \o Rep("c", 3) \o <<"\n">>
TextBlank == <<" ", "\n">>
Texts == {TextTwo, TextShort, TextBlank}

\* contents of the question box
QueryInputs == {<<>>, <<" ">>, <<"q">>, <<" ", "q", " ">>}

\* what the embedding service answers for a text: the model behind it is a
\* function of the text, here of its first character
EmbeddingOf(text) ==
    CASE text = <<>> -> <<0, 0>>
      [] text # <<>> /\ text[1] = "a" -> <<1, 0>>
      [] text # <<>> /\ text[1] = "b" -> <<0, 1>>
      [] OTHER -> <<1, 1>>

\* what the generative service may answer
Answers == {<<"answer">>}

PdfExceptions == {"InvalidPDFException", "PasswordException", "UnknownErrorException"}

(***************************************************************************)
(* Errors and messages.                                                    *)
(***************************************************************************)
Err(name, message) == [name |-> name, message |-> message]

TimeoutMessage == "Processing timed out. The PDF might be too large or complex."
NoTextMessage == "Could not extract any text from the PDF. The document might be image-based or empty."
InvalidPdfMessage == "The file appears to be a corrupted or invalid PDF."
PasswordMessage == "The PDF is password-protected and cannot be processed."
FailedMessage == "Failed to process the PDF. It might be corrupted or in a complex format."
TextTooShortMessage == "No text provided or text is too short."
EmbedFailedMessage == "Failed to embed document chunks."
QueryErrorNotice == "An error occurred while querying the Gemini API."
ApologyText == <<"Sorry, I encountered an error trying to answer your question. Please try again.">>

\* the switch without its PasswordException case
pdfErrorMessage_NoPasswordCase(err) ==
    CASE err.message = "Timeout" -> TimeoutMessage
      [] err.message = "NoTextContent" -> NoTextMessage
      [] OTHER ->
            CASE err.name = "InvalidPDFException" -> InvalidPdfMessage
              [] OTHER -> FailedMessage

\* the switch of processAndIndexPdf's catch block
pdfErrorMessage(err) ==
    CASE err.message = "Timeout" -> TimeoutMessage
      [] err.message = "NoTextContent" -> NoTextMessage
      [] OTHER ->
            CASE err.name = "InvalidPDFException" -> InvalidPdfMessage
              [] err.name = "PasswordException" -> PasswordMessage
              [] OTHER -> FailedMessage

Message(sender, text) == [sender |-> sender, text |-> text]

\* the acknowledgment of processAndIndexPdf: the template with file.name in it
PdfAck(name) ==
    Message("ai", <<"Document \"", name,
                    "\" has been processed and indexed. You can now ask questions about its content.">>)

\* the acknowledgment of processAndIndexText: a fixed sentence
TextAck ==
    Message("ai", <<"The provided text has been processed and indexed. You can now ask questions about its content.">>)

(***************************************************************************)
(* The React state as a record, and the handlers' writes to it.            *)
(***************************************************************************)
Cur == [documentLoaded |-> documentLoaded, documentTitle |-> documentTitle,
        pdfImages |-> pdfImages, vectorStore |-> vectorStore,
        chatHistory |-> chatHistory, status |-> status, error |-> error]

Commit(s) ==
    /\ documentLoaded' = s.documentLoaded
    /\ documentTitle' = s.documentTitle
    /\ pdfImages' = s.pdfImages
    /\ vectorStore' = s.vectorStore
    /\ chatHistory' = s.chatHistory
    /\ status' = s.status
    /\ error' = s.error

\* resetState without its setChatHistory([])
resetState_KeepsTranscript ==
    [documentLoaded |-> FALSE, documentTitle |-> "", pdfImages |-> <<>>,
     vectorStore |-> <<>>, chatHistory |-> chatHistory, status |-> "idle",
     error |-> Null]

\* the state resetState leaves
resetState ==
    [documentLoaded |-> FALSE, documentTitle |-> "", pdfImages |-> <<>>,
     vectorStore |-> <<>>, chatHistory |-> <<>>, status |-> "idle",
     error |-> Null]

\* the UI event handled last, or "async" for a continuation of a flow
UiEvents == {"mount", "selectFile", "submitText", "clear", "submitQuery"}
Event(op, id) == IF op \in UiEvents THEN op ELSE "async"

(***************************************************************************)
(* embedChunks: one embedContent request per chunk, joined by Promise.all. *)
(***************************************************************************)
Pending == "pending"

\* a request without its response yet
NoResponse == <<>>

\* the requests just issued
EmbedRequests(chunks) == [k \in 1..Len(chunks) |-> NoResponse]

AllResolved(resp) == \A k \in 1..Len(resp) : resp[k] # NoResponse

\* the pairing with the responses taken from the far end
embedChunksResult_Reversed(chunks, resp) ==
    [k \in 1..Len(chunks) |->
        [content |-> chunks[k], embedding |-> resp[Len(chunks) + 1 - k]]]

\* chunks.map((chunk, i) => ({content: chunk, embedding: embeddings[i]}))
embedChunksResult(chunks, resp) ==
    [k \in 1..Len(chunks) |-> [content |-> chunks[k], embedding |-> resp[k]]]

(***************************************************************************)
(* Initial state: the App component as mounted.                            *)
(***************************************************************************)
\* no function is called on its own during a session
NoCall == [fn |-> "none"]

\* the App component as mounted
AppMounted ==
    /\ documentLoaded = FALSE
    /\ documentTitle = ""
    /\ pdfImages = <<>>
    /\ vectorStore = <<>>
    /\ chatHistory = <<>>
    /\ status = "idle"
    /\ error = Null
    /\ pdfFlows = {}
    /\ textFlows = {}
    /\ queryFlows = {}
    /\ nDocs = 0
    /\ nQueries = 0
    /\ lastEvent = Event("mount", 0)

Init == AppMounted /\ call = NoCall

(***************************************************************************)
(* What the page lets the user do (App's render and FileUpload's render).  *)
(***************************************************************************)
\* FileUpload is mounted when no document is loaded and shows its inputs
\* unless isLoading
UploaderShown == ~documentLoaded /\ status \notin {"parsing", "indexing"}

\* ChatInterface and the Clear Document button are mounted
ChatShown == documentLoaded

(***************************************************************************)
(* processAndIndexPdf.                                                     *)
(***************************************************************************)
Image(name, i) == <<"data:image/jpeg", name, i>>

NewPdfFlow(id, name) ==
    [id |-> id, file |-> name, pc |-> "read", page |-> 0, fullText |-> <<>>,
     images |-> <<>>, chunks |-> <<>>, resp |-> <<>>,
     timer |-> Pending, delay |-> PDF_PROCESSING_TIMEOUT, outcome |-> Pending]

\* a flow whose processing has ended and whose timer has fired is garbage
PdfFlowOver(g) == g.pc = "done" /\ g.timer = "fired"

\* once onload has returned, its locals (i, fullText, images, textChunks and
\* the embedding responses) are gone
PdfLocalsDropped(g) ==
    IF g.pc = "done"
    THEN [g EXCEPT !.page = 0, !.fullText = <<>>, !.images = <<>>,
                   !.chunks = <<>>, !.resp = <<>>]
    ELSE g

PdfStep(op, f, g, s) ==
    /\ Commit(s)
    /\ pdfFlows' = (pdfFlows \ {f}) \cup
                      (IF PdfFlowOver(g) THEN {} ELSE {PdfLocalsDropped(g)})
    /\ lastEvent' = Event(op, f.id)
    /\ UNCHANGED <<textFlows, queryFlows, nDocs, nQueries, call>>

\* a catch block that would run for every rejection, the late ones included
PdfCatch_AfterTheRaceToo(f, err, s) ==
    [s EXCEPT !.error = pdfErrorMessage(err), !.status = "idle"]

\* the catch block after Promise.race, which runs only for the promise that
\* settles the race first
PdfCatch(f, err, s) ==
    IF f.outcome = Pending
    THEN [s EXCEPT !.error = pdfErrorMessage(err), !.status = "idle"]
    ELSE s

\* reject(err) inside processingPromise, after the writes that led to s
PdfReject(op, f, err, s) ==
    PdfStep(op, f,
            [f EXCEPT !.pc = "done",
                      !.outcome = IF @ = Pending THEN "rejected" ELSE @],
            PdfCatch(f, err, s))

\* fileReader.onload: the file has been read
FileReaderLoad(f, hasResult) ==
    /\ f.pc = "read"
    /\ IF hasResult
       THEN PdfStep("FileReaderLoad", f, [f EXCEPT !.pc = "getDocument"], Cur)
       ELSE PdfReject("FileReaderLoad", f,
                      Err("Error", "File could not be read."), Cur)

\* fileReader.onerror
FileReaderError(f) ==
    /\ f.pc = "read"
    /\ PdfReject("FileReaderError", f, Err("Error", "Error reading file."), Cur)

\* pdfjsLib.getDocument(...).promise resolves: the page loop starts at i = 1
GetDocumentResolve(f) ==
    /\ f.pc = "getDocument"
    /\ PdfStep("GetDocumentResolve", f,
               [f EXCEPT !.pc = "getPage", !.page = 1], Cur)

GetDocumentReject(f, name) ==
    /\ f.pc = "getDocument"
    /\ PdfReject("GetDocumentReject", f, Err(name, "pdf.js error"), Cur)

GetPageResolve(f) ==
    /\ f.pc = "getPage"
    /\ PdfStep("GetPageResolve", f, [f EXCEPT !.pc = "getTextContent"], Cur)

\* getPage, getTextContent or render rejects
PageReject(f) ==
    /\ f.pc \in {"getPage", "getTextContent", "render"}
    /\ PdfReject("PageReject", f, Err("Error", "page error"), Cur)

\* the end of one iteration of the page loop, g being the flow after the
\* iteration's body: the next page, or the code after the loop up to the
\* await of embedChunks
EndOfPage(op, f, g) ==
    IF g.page < Len(FilePages(g.file))
    THEN PdfStep(op, f, [g EXCEPT !.page = @ + 1, !.pc = "getPage"], Cur)
    ELSE LET s == [Cur EXCEPT !.pdfImages = g.images, !.status = "indexing"]
             textChunks == chunkText(g.fullText)
         IN  IF Len(textChunks) = 0
             THEN PdfReject(op, f, Err("Error", "NoTextContent"), s)
             ELSE PdfStep(op, f,
                          [g EXCEPT !.pc = "embed", !.chunks = textChunks,
                                    !.resp = EmbedRequests(textChunks)], s)

\* page.getTextContent() resolves: the page's text is appended and the
\* canvas is created; without a 2d context the page is not rendered
GetTextContentResolve(f, hasContext) ==
    /\ f.pc = "getTextContent"
    /\ LET items == FilePages(f.file)[f.page]
           g == [f EXCEPT !.fullText = @ \o Join(items, <<" ">>) \o <<"\n", "\n">>]
       IN  IF hasContext
           THEN PdfStep("GetTextContentResolve", f, [g EXCEPT !.pc = "render"], Cur)
           ELSE EndOfPage("GetTextContentResolve", f, g)

\* page.render(...).promise resolves: the page's image is pushed
RenderResolve(f) ==
    /\ f.pc = "render"
    /\ EndOfPage("RenderResolve", f,
                 [f EXCEPT !.images = Append(@, Image(f.file, f.page))])

\* the state a successful binary ingestion writes
PdfSuccess(f, embeddedChunks) ==
    [Cur EXCEPT !.vectorStore = embeddedChunks, !.status = "ready",
                !.documentLoaded = TRUE,
                !.chatHistory = << PdfAck(f.file) >>]

\* one embedContent request of the batch resolves; with the last one
\* Promise.all resolves and the flow commits its result and resolves
PdfEmbedResolve(f, k) ==
    /\ f.pc = "embed"
    /\ k \in 1..Len(f.resp)
    /\ f.resp[k] = NoResponse
    /\ LET resp == [f.resp EXCEPT ![k] = EmbeddingOf(f.chunks[k])]
       IN  IF AllResolved(resp)
           THEN PdfStep("PdfEmbedResolve", f,
                        [f EXCEPT !.pc = "done", !.resp = resp,
                                  !.outcome = IF @ = Pending THEN "resolved" ELSE @],
                        PdfSuccess(f, embedChunksResult(f.chunks, resp)))
           ELSE PdfStep("PdfEmbedResolve", f, [f EXCEPT !.resp = resp], Cur)

\* one embedContent request rejects: Promise.all rejects at once and
\* embedChunks throws its own error
PdfEmbedReject(f, k) ==
    /\ f.pc = "embed"
    /\ k \in 1..Len(f.resp)
    /\ f.resp[k] = NoResponse
    /\ PdfReject("PdfEmbedReject", f, Err("Error", EmbedFailedMessage), Cur)

\* timers of equal delay fire in the order they were set
TimerMayFire(f) ==
    /\ f.timer = Pending
    /\ \A g \in pdfFlows :
          (g.id < f.id /\ g.delay <= f.delay) => g.timer # Pending

\* the setTimeout callback: reject(new Error("Timeout"))
TimerFire(f) ==
    /\ TimerMayFire(f)
    /\ PdfStep("TimerFire", f,
               [f EXCEPT !.timer = "fired",
                         !.outcome = IF @ = Pending THEN "timeout" ELSE @],
               PdfCatch(f, Err("Error", "Timeout"), Cur))

\* handleFileSelect(file) with a file, as FileUpload calls it
handleFileSelect(file) ==
    /\ UploaderShown
    /\ nDocs < MaxDocs
    /\ Commit([resetState EXCEPT !.documentTitle = file.name,
                                 !.status = "parsing", !.error = Null])
    /\ pdfFlows' = pdfFlows \cup {NewPdfFlow(nDocs + 1, file.name)}
    /\ nDocs' = nDocs + 1
    /\ lastEvent' = Event("selectFile", nDocs + 1)
    /\ UNCHANGED <<textFlows, queryFlows, nQueries, call>>

(***************************************************************************)
(* processAndIndexText.                                                    *)
(***************************************************************************)
TextStep(op, f, G, s) ==
    /\ Commit(s)
    /\ textFlows' = (textFlows \ {f}) \cup G
    /\ lastEvent' = Event(op, f.id)
    /\ UNCHANGED <<pdfFlows, queryFlows, nDocs, nQueries, call>>

\* the catch block of processAndIndexText
TextCatch(message, s) == [s EXCEPT !.error = message, !.status = "idle"]

\* the success path without its setDocumentLoaded(true)
TextSuccess_NotLoaded(embeddedChunks) ==
    [Cur EXCEPT !.vectorStore = embeddedChunks, !.status = "ready",
                !.chatHistory = << TextAck >>]

\* the state a successful text ingestion writes
TextSuccess(embeddedChunks) ==
    [Cur EXCEPT !.vectorStore = embeddedChunks, !.status = "ready",
                !.documentLoaded = TRUE, !.chatHistory = << TextAck >>]

TextEmbedResolve(f, k) ==
    /\ k \in 1..Len(f.resp)
    /\ f.resp[k] = NoResponse
    /\ LET resp == [f.resp EXCEPT ![k] = EmbeddingOf(f.chunks[k])]
       IN  IF AllResolved(resp)
           THEN TextStep("TextEmbedResolve", f, {},
                         TextSuccess(embedChunksResult(f.chunks, resp)))
           ELSE TextStep("TextEmbedResolve", f, {[f EXCEPT !.resp = resp]}, Cur)

TextEmbedReject(f, k) ==
    /\ k \in 1..Len(f.resp)
    /\ f.resp[k] = NoResponse
    /\ TextStep("TextEmbedReject", f, {}, TextCatch(EmbedFailedMessage, Cur))

\* handleTextSubmit(text): resetState, the title, and processAndIndexText up
\* to its first await (or through its catch when there is nothing to index)
handleTextSubmit(text) ==
    IF Trim(text) # <<>>
    THEN LET s == [resetState EXCEPT !.documentTitle = "Pasted Text",
                                     !.status = "indexing", !.error = Null]
             textChunks == chunkText(text)
         IN  /\ IF Len(textChunks) = 0
                THEN /\ Commit(TextCatch(TextTooShortMessage, s))
                     /\ UNCHANGED textFlows
                ELSE /\ Commit(s)
                     /\ textFlows' = textFlows \cup
                           {[id |-> nDocs + 1, chunks |-> textChunks,
                             resp |-> EmbedRequests(textChunks)]}
             /\ nDocs' = nDocs + 1
             /\ lastEvent' = Event("submitText", nDocs + 1)
             /\ UNCHANGED <<pdfFlows, queryFlows, nQueries, call>>
    ELSE /\ lastEvent' = Event("submitText", 0)
         /\ UNCHANGED <<session, flows, nDocs, nQueries, call>>

\* FileUpload's handleTextProcess: the Process Text button
handleTextProcess(textContent) ==
    /\ UploaderShown
    /\ nDocs < MaxDocs
    /\ IF Trim(textContent) # <<>>
       THEN handleTextSubmit(Trim(textContent))
       ELSE /\ lastEvent' = Event("submitText", 0)
            /\ UNCHANGED <<session, flows, nDocs, nQueries, call>>

(***************************************************************************)
(* The vector search of queryDocument.  A similarity is kept exact: the    *)
(* record [num, den2] stands for the real number num / sqrt(den2).         *)
(***************************************************************************)
RECURSIVE SumTo(_, _)
SumTo(term, n) == IF n = 0 THEN 0 ELSE SumTo(term, n - 1) + term[n]

dotProduct(vecA, vecB) ==
    SumTo([i \in 1..Len(vecA) |-> vecA[i] * vecB[i]], Len(vecA))

\* the square of magnitude(vec)
magnitudeSquared(vec) ==
    SumTo([i \in 1..Len(vec) |-> vec[i] * vec[i]], Len(vec))

\* cosineSimilarity guarding its first vector alone
cosineSimilarity_GuardsFirstOnly(vecA, vecB) ==
    IF magnitudeSquared(vecA) = 0
    THEN [num |-> 0, den2 |-> 1]
    ELSE [num |-> dotProduct(vecA, vecB),
          den2 |-> magnitudeSquared(vecA) * magnitudeSquared(vecB)]

cosineSimilarity(vecA, vecB) ==
    IF magnitudeSquared(vecA) = 0 \/ magnitudeSquared(vecB) = 0
    THEN [num |-> 0, den2 |-> 1]
    ELSE [num |-> dotProduct(vecA, vecB),
          den2 |-> magnitudeSquared(vecA) * magnitudeSquared(vecB)]

Abs(n) == IF n < 0 THEN -n ELSE n

\* x > y for two similarities
SimGreater(x, y) == x.num * Abs(x.num) * y.den2 > y.num * Abs(y.num) * x.den2

\* a descending sort that puts an item before the items equal to it
RECURSIVE SortBySimilarity_TiesNewestFirst(_)
SortBySimilarity_TiesNewestFirst(items) ==
    IF Len(items) <= 1 THEN items
    ELSE LET sorted == SortBySimilarity_TiesNewestFirst(SubSeq(items, 1, Len(items) - 1))
             x == items[Len(items)]
             before == {k \in 1..Len(sorted) :
                           \A j \in 1..k : SimGreater(sorted[j].similarity, x.similarity)}
             n == Cardinality(before)
         IN  SubSeq(sorted, 1, n) \o <<x>> \o SubSeq(sorted, n + 1, Len(sorted))

\* scoredChunks.sort((a, b) => b.similarity - a.similarity): descending and
\* stable, an item going behind the items that are not smaller than it
RECURSIVE SortBySimilarity(_)
SortBySimilarity(items) ==
    IF Len(items) <= 1 THEN items
    ELSE LET sorted == SortBySimilarity(SubSeq(items, 1, Len(items) - 1))
             x == items[Len(items)]
             before == {k \in 1..Len(sorted) :
                           \A j \in 1..k : ~SimGreater(x.similarity, sorted[j].similarity)}
             n == Cardinality(before)
         IN  SubSeq(sorted, 1, n) \o <<x>> \o SubSeq(sorted, n + 1, Len(sorted))

topK == 5

\* steps 2 and 3 of queryDocument: the contents of the top-K chunks
relevantChunks(queryEmbedding, store) ==
    LET scoredChunks ==
            [k \in 1..Len(store) |->
                [content |-> store[k].content, embedding |-> store[k].embedding,
                 similarity |-> cosineSimilarity(queryEmbedding, store[k].embedding)]]
        sorted == SortBySimilarity(scoredChunks)
        top == SubSeq(sorted, 1, IF Len(sorted) < topK THEN Len(sorted) ELSE topK)
    IN  [k \in 1..Len(top) |-> top[k].content]

(***************************************************************************)
(* handleQuerySubmit and queryDocument.                                    *)
(***************************************************************************)
QueryStep(op, q, G, s) ==
    /\ Commit(s)
    /\ queryFlows' = (queryFlows \ {q}) \cup G
    /\ lastEvent' = Event(op, q.id)
    /\ UNCHANGED <<pdfFlows, textFlows, nDocs, nQueries, call>>

\* handleQuerySubmit guarded by the vector store alone
handleQuerySubmit_IgnoresStatus(query) ==
    IF Len(vectorStore) = 0
    THEN /\ lastEvent' = Event("submitQuery", 0)
         /\ UNCHANGED <<session, flows, nDocs, nQueries, call>>
    ELSE /\ nQueries < MaxQueries
         /\ Commit([Cur EXCEPT !.status = "querying", !.error = Null,
                               !.chatHistory = Append(@, Message("user", query))])
         /\ queryFlows' = queryFlows \cup
               {[id |-> nQueries + 1, query |-> query, pc |-> "embedQuery",
                 vectorStore |-> vectorStore, documentImages |-> pdfImages,
                 queryEmbedding |-> <<>>, context |-> <<>>]}
         /\ nQueries' = nQueries + 1
         /\ lastEvent' = Event("submitQuery", nQueries + 1)
         /\ UNCHANGED <<pdfFlows, textFlows, nDocs, call>>

\* handleQuerySubmit(query), the onQuerySubmit callback
handleQuerySubmit(query) ==
    IF Len(vectorStore) = 0 \/ status # "ready"
    THEN /\ lastEvent' = Event("submitQuery", 0)
         /\ UNCHANGED <<session, flows, nDocs, nQueries, call>>
    ELSE /\ nQueries < MaxQueries
         /\ Commit([Cur EXCEPT !.status = "querying", !.error = Null,
                               !.chatHistory = Append(@, Message("user", query))])
         /\ queryFlows' = queryFlows \cup
               {[id |-> nQueries + 1, query |-> query, pc |-> "embedQuery",
                 vectorStore |-> vectorStore, documentImages |-> pdfImages,
                 queryEmbedding |-> <<>>, context |-> <<>>]}
         /\ nQueries' = nQueries + 1
         /\ lastEvent' = Event("submitQuery", nQueries + 1)
         /\ UNCHANGED <<pdfFlows, textFlows, nDocs, call>>

\* ChatInterface's handleSubmit: the form of the question box
handleSubmit(query) ==
    /\ ChatShown
    /\ IF Trim(query) # <<>> /\ status = "ready"
       THEN handleQuerySubmit(Trim(query))
       ELSE /\ lastEvent' = Event("submitQuery", 0)
            /\ UNCHANGED <<session, flows, nDocs, nQueries, call>>

\* embedQuery resolves inside queryDocument: the chunks are scored, the
\* prompt is built and generateContent is called
EmbedQueryResolve(q) ==
    /\ q.pc = "embedQuery"
    /\ LET queryEmbedding == EmbeddingOf(q.query)
       IN  QueryStep("EmbedQueryResolve", q,
                     {[q EXCEPT !.pc = "generate",
                                !.queryEmbedding = queryEmbedding,
                                !.context = relevantChunks(queryEmbedding, q.vectorStore)]},
                     Cur)

\* the catch block alone, without the finally block's setStatus('ready')
QueryFailure_NoFinally ==
    [Cur EXCEPT !.chatHistory = Append(@, Message("ai", ApologyText)),
                !.error = QueryErrorNotice]

\* the catch and finally blocks of handleQuerySubmit
QueryFailure ==
    [Cur EXCEPT !.chatHistory = Append(@, Message("ai", ApologyText)),
                !.error = QueryErrorNotice, !.status = "ready"]

\* the try and finally blocks of handleQuerySubmit once the answer is there
QuerySuccess(answer) ==
    [Cur EXCEPT !.chatHistory = Append(@, Message("ai", answer)),
                !.status = "ready"]

\* embedQuery or generateContent rejects: queryDocument throws
QueryReject(q) ==
    /\ q.pc \in {"embedQuery", "generate"}
    /\ QueryStep("QueryReject", q, {}, QueryFailure)

\* generateContent resolves: queryDocument returns response.text
GenerateResolve(q, answer) ==
    /\ q.pc = "generate"
    /\ QueryStep("GenerateResolve", q, {}, QuerySuccess(answer))

\* the Clear Document button
ClearDocument ==
    /\ ChatShown
    /\ Commit(resetState)
    /\ lastEvent' = Event("clear", 0)
    /\ UNCHANGED <<flows, nDocs, nQueries, call>>

(***************************************************************************)
(* The next-state relation.  FileUpload passes handleFileSelect a File in  *)
(* every call (never null).  Here every canvas yields its 2d context, so   *)
(* the page loop always renders; SpecPages below follows one binary        *)
(* ingestion with canvases that may yield none.  Each query counts once    *)
(* whether it arrives through ChatInterface's form or through the          *)
(* onQuerySubmit callback itself.                                          *)
(***************************************************************************)
Next ==
    \/ \E file \in Files : handleFileSelect(file)
    \/ \E textContent \in Texts : handleTextProcess(textContent)
    \/ ClearDocument
    \/ \E query \in QueryInputs : handleSubmit(query)
    \/ \E query \in {Trim(x) : x \in QueryInputs} \ {<<>>} :
          ChatShown /\ handleQuerySubmit(query)
    \/ \E f \in pdfFlows, hasResult \in BOOLEAN : FileReaderLoad(f, hasResult)
    \/ \E f \in pdfFlows : FileReaderError(f)
    \/ \E f \in pdfFlows : GetDocumentResolve(f)
    \/ \E f \in pdfFlows, name \in PdfExceptions : GetDocumentReject(f, name)
    \/ \E f \in pdfFlows : GetPageResolve(f)
    \/ \E f \in pdfFlows : PageReject(f)
    \/ \E f \in pdfFlows : GetTextContentResolve(f, TRUE)
    \/ \E f \in pdfFlows : RenderResolve(f)
    \/ \E f \in pdfFlows : \E k \in 1..Len(f.resp) : PdfEmbedResolve(f, k)
    \/ \E f \in pdfFlows : \E k \in 1..Len(f.resp) : PdfEmbedReject(f, k)
    \/ \E f \in pdfFlows : TimerFire(f)
    \/ \E f \in textFlows : \E k \in 1..Len(f.resp) : TextEmbedResolve(f, k)
    \/ \E f \in textFlows : \E k \in 1..Len(f.resp) : TextEmbedReject(f, k)
    \/ \E q \in queryFlows : EmbedQueryResolve(q)
    \/ \E q \in queryFlows : QueryReject(q)
    \/ \E q \in queryFlows, answer \in Answers : GenerateResolve(q, answer)

Spec == Init /\ [][Next]_vars

(***************************************************************************)
(* Vocabulary of the properties.                                           *)
(***************************************************************************)
IsPrefix(a, b) == Len(a) <= Len(b) /\ SubSeq(b, 1, Len(a)) = a

Range(seq) == {seq[k] : k \in 1..Len(seq)}

\* the flows whose work is still going on
RunningPdf == {f \in pdfFlows : f.pc # "done"}
InFlight == Cardinality(RunningPdf) + Cardinality(textFlows) + Cardinality(queryFlows)

\* flow f takes a step of its extraction+indexing work (not its timer)
PdfWorkStep(f) ==
    /\ f \in pdfFlows
    /\ f \notin pdfFlows'
    /\ \A g \in pdfFlows' : g.id = f.id => g.timer = f.timer

\* the timer of f fires while its processing has not settled the race
TimeoutWins(f) == f \in pdfFlows /\ f.outcome = Pending /\ TimerFire(f)

(***************************************************************************)
(* C1: once the timer has won the race of a binary ingestion, no later     *)
(* step of the abandoned flow writes pdfImages, vectorStore, chatHistory,  *)
(* documentLoaded or status.                                               *)
(***************************************************************************)
C1_AbandonedFlowWritesNothing ==
    [][\A f \in pdfFlows :
          (f.outcome = "timeout" /\ PdfWorkStep(f)) =>
             UNCHANGED <<pdfImages, vectorStore, chatHistory, documentLoaded, status>>]_vars

(***************************************************************************)
(* C2: when the timer fires on a binary ingestion that has not completed,  *)
(* status is 'idle', the timeout message is the error, and the vector      *)
(* store is empty.                                                         *)
(***************************************************************************)
C2_TimeoutLeavesIdleAndNoPassages ==
    [][\A f \in pdfFlows :
          TimeoutWins(f) =>
             /\ status' = "idle"
             /\ error' = TimeoutMessage
             /\ vectorStore' = <<>>]_vars

(***************************************************************************)
(* C3: in every reachable state at most one ingestion or query flow is in  *)
(* flight.                                                                 *)
(***************************************************************************)
C3_AtMostOneFlowInFlight == InFlight <= 1

(***************************************************************************)
(* C4: every change of status follows a listed edge: idle->parsing on a    *)
(* binary submission, idle->indexing on a text submission,                 *)
(* parsing->indexing, indexing->ready, ready->querying, querying->ready,   *)
(* or any->idle.                                                           *)
(***************************************************************************)
C4_StatusFollowsListedEdges ==
    [][status' # status =>
          \/ status' = "idle"
          \/ status = "idle" /\ status' = "parsing" /\ lastEvent' = "selectFile"
          \/ status = "idle" /\ status' = "indexing" /\ lastEvent' = "submitText"
          \/ status = "parsing" /\ status' = "indexing"
          \/ status = "indexing" /\ status' = "ready"
          \/ status = "ready" /\ status' = "querying"
          \/ status = "querying" /\ status' = "ready"]_vars

(***************************************************************************)
(* C5: a query submitted while status is not 'ready' changes nothing:      *)
(* status, chatHistory, vectorStore, pdfImages and error stay as they are  *)
(* and no service call is started.                                         *)
(***************************************************************************)
C5_QueryWhileNotReadyIsNoOp ==
    [][(lastEvent' = "submitQuery" /\ status # "ready") =>
          UNCHANGED <<status, chatHistory, vectorStore, pdfImages, error,
                      documentLoaded, documentTitle, queryFlows, nQueries>>]_vars

\* a submission was refused while a query was waiting for its answer
C5_Witness ==
    /\ lastEvent = "submitQuery"
    /\ status = "querying"
    /\ queryFlows # {}
    /\ \A q \in queryFlows : q.pc = "generate"

(***************************************************************************)
(* C6: right after an explicit reset the session is wiped as a whole:      *)
(* status 'idle', documentLoaded false, empty title, no page images, empty *)
(* vector store, empty transcript, no error.                               *)
(***************************************************************************)
C6_ResetWipesEverything ==
    lastEvent = "clear" =>
        /\ status = "idle"
        /\ documentLoaded = FALSE
        /\ documentTitle = ""
        /\ pdfImages = <<>>
        /\ vectorStore = <<>>
        /\ chatHistory = <<>>
        /\ error = Null

\* a reset taken while a query was in flight
C6_Witness == lastEvent = "clear" /\ queryFlows # {}

(***************************************************************************)
(* C7: when an ingestion fails, the session ends in 'idle' with an error   *)
(* message and nothing left of the attempt: empty vector store, no page    *)
(* images, empty transcript, documentLoaded false.                         *)
(***************************************************************************)
\* the race of f is settled by a rejection in this step
PdfFails(f) ==
    /\ f \in pdfFlows
    /\ f.outcome = Pending
    /\ \/ TimerFire(f)
       \/ PdfWorkStep(f) /\ \E g \in pdfFlows' : g.id = f.id /\ g.outcome = "rejected"

TextFails ==
    \/ \E f \in textFlows : \E k \in 1..Len(f.resp) : TextEmbedReject(f, k)
    \/ lastEvent' = "submitText" /\ nDocs' = nDocs + 1 /\ textFlows' = textFlows

C7_FailedIngestionLeavesNothing ==
    [][((\E f \in pdfFlows : PdfFails(f)) \/ TextFails) =>
          /\ status' = "idle"
          /\ error' # Null
          /\ vectorStore' = <<>>
          /\ pdfImages' = <<>>
          /\ chatHistory' = <<>>
          /\ documentLoaded' = FALSE]_vars

(***************************************************************************)
(* C8: when a query fails, status returns to 'ready', one apology from     *)
(* 'ai' is appended right after the user's message, the error notice is    *)
(* set, vectorStore, pdfImages, documentTitle and documentLoaded are       *)
(* unchanged, and the session still accepts a query.                       *)
(***************************************************************************)
C8_FailedQueryKeepsSession ==
    [][\A q \in queryFlows :
          QueryReject(q) =>
             /\ status' = "ready"
             /\ chatHistory' = Append(chatHistory, Message("ai", ApologyText))
             /\ chatHistory # <<>>
             /\ chatHistory[Len(chatHistory)] = Message("user", q.query)
             /\ error' = QueryErrorNotice
             /\ UNCHANGED <<vectorStore, pdfImages, documentTitle, documentLoaded>>
             /\ documentLoaded' /\ Len(vectorStore') > 0]_vars

(***************************************************************************)
(* C9: when an ingestion succeeds, status is 'ready', documentLoaded is    *)
(* true, the vector store holds one passage per chunk, in chunk order, and *)
(* the transcript is one 'ai' acknowledgment: on the binary path it names  *)
(* the file, on the text path it is the fixed sentence about "the provided *)
(* text".                                                                  *)
(***************************************************************************)
PdfSucceeds(f) ==
    /\ f \in pdfFlows
    /\ \E k \in 1..Len(f.resp) :
          PdfEmbedResolve(f, k) /\ AllResolved([f.resp EXCEPT ![k] = EmbeddingOf(f.chunks[k])])

TextSucceeds(f) ==
    /\ f \in textFlows
    /\ \E k \in 1..Len(f.resp) :
          TextEmbedResolve(f, k) /\ AllResolved([f.resp EXCEPT ![k] = EmbeddingOf(f.chunks[k])])

\* what every successful ingestion of chunks leaves
Indexed(chunks) ==
    /\ status' = "ready"
    /\ documentLoaded' = TRUE
    /\ Len(vectorStore') = Len(chunks)
    /\ \A k \in 1..Len(chunks) : vectorStore'[k].content = chunks[k]
    /\ Len(chatHistory') = 1
    /\ chatHistory'[1].sender = "ai"

C9_SuccessfulIngestion ==
    [][/\ \A f \in pdfFlows :
             PdfSucceeds(f) =>
                Indexed(f.chunks) /\ f.file \in Range(chatHistory'[1].text)
       /\ \A f \in textFlows :
             TextSucceeds(f) =>
                Indexed(f.chunks) /\ chatHistory'[1] = TextAck]_vars

\* the claim as written: the acknowledgment names the document on both paths
C9_AckNamesDocumentOnBothPaths ==
    [][/\ \A f \in pdfFlows :
             PdfSucceeds(f) =>
                Indexed(f.chunks) /\ f.file \in Range(chatHistory'[1].text)
       /\ \A f \in textFlows :
             TextSucceeds(f) =>
                Indexed(f.chunks) /\ "Pasted Text" \in Range(chatHistory'[1].text)]_vars

\* a pasted text has just been indexed
C9_Witness ==
    /\ status = "ready"
    /\ documentLoaded
    /\ documentTitle = "Pasted Text"
    /\ chatHistory = << TextAck >>
    /\ Len(vectorStore) = 2
    /\ textFlows = {}

(***************************************************************************)
(* C10: every step other than a full session reset leaves the previous     *)
(* transcript as a prefix of the new one.                                  *)
(***************************************************************************)
C10_TranscriptOnlyGrows ==
    [][\/ IsPrefix(chatHistory, chatHistory')
       \/ lastEvent' \in {"clear", "selectFile", "submitText"}]_vars

(***************************************************************************)
(* C11: the vector index is populated once per session and then altered    *)
(* by a reset alone: no step of a query changes vectorStore, a change of   *)
(* vectorStore is an ingestion's success or a reset, and a populated       *)
(* vectorStore changes by a reset only.                                    *)
(***************************************************************************)
\* a step that runs resetState: Clear Document or a new submission
ResetStep == lastEvent' \in {"clear", "selectFile", "submitText"}

QueryFlowStep ==
    \E q \in queryFlows :
       \/ EmbedQueryResolve(q)
       \/ QueryReject(q)
       \/ \E answer \in Answers : GenerateResolve(q, answer)

IngestionSucceeds ==
    \/ \E f \in pdfFlows : PdfSucceeds(f)
    \/ \E f \in textFlows : TextSucceeds(f)

C11_IndexWrittenOncePerSession ==
    [][/\ (QueryFlowStep \/ lastEvent' = "submitQuery") => UNCHANGED vectorStore
       /\ vectorStore' # vectorStore => (IngestionSucceeds \/ ResetStep)
       /\ (vectorStore # <<>> /\ vectorStore' # vectorStore) => ResetStep]_vars

(***************************************************************************)
(* C12: on both ingestion paths, when the chunker yields zero chunks the   *)
(* ingestion fails for good: the step leaves status 'idle' and the path's  *)
(* no-content message as the error, no embedding request is issued for the *)
(* document, and status is never 'ready' over an empty vector store.       *)
(***************************************************************************)
\* the page loop of f ends in this step with a text that has no chunk
PdfNoChunks(f) ==
    /\ f \in pdfFlows
    /\ f.pc = "render"
    /\ f.page = Len(FilePages(f.file))
    /\ Len(chunkText(f.fullText)) = 0
    /\ RenderResolve(f)

\* a text without a chunk is submitted in this step
TextNoChunks ==
    lastEvent' = "submitText" /\ nDocs' = nDocs + 1 /\ textFlows' = textFlows

C12_NoChunksIsTerminalFailure ==
    [][/\ \A f \in pdfFlows :
             PdfNoChunks(f) =>
                /\ status' = "idle"
                /\ error' = NoTextMessage
                /\ \A g \in pdfFlows' : g.id = f.id => g.pc = "done" /\ g.resp = <<>>
       /\ TextNoChunks =>
             /\ status' = "idle"
             /\ error' = TextTooShortMessage
       /\ status' = "ready" => vectorStore' # <<>>]_vars

(***************************************************************************)
(* C13: when one embedding request of a batch fails, embedChunks fails as  *)
(* a whole and the vector store stays empty: the failing step ends the     *)
(* batch and leaves vectorStore empty, and a response that is not the last *)
(* of its batch writes nothing to vectorStore.                             *)
(***************************************************************************)
PdfBatchFails(f) ==
    f \in pdfFlows /\ \E k \in 1..Len(f.resp) : PdfEmbedReject(f, k)

TextBatchFails(f) ==
    f \in textFlows /\ \E k \in 1..Len(f.resp) : TextEmbedReject(f, k)

\* a response arrives while others of the batch are still awaited
PartialBatch(f, resolve(_, _)) ==
    \E k \in 1..Len(f.resp) :
       /\ resolve(f, k)
       /\ ~AllResolved([f.resp EXCEPT ![k] = EmbeddingOf(f.chunks[k])])

C13_FailedBatchIndexesNothing ==
    [][/\ \A f \in pdfFlows :
             /\ PdfBatchFails(f) =>
                   /\ vectorStore' = <<>>
                   /\ \A g \in pdfFlows' : g.id = f.id => g.pc = "done"
             /\ PartialBatch(f, PdfEmbedResolve) => UNCHANGED vectorStore
       /\ \A f \in textFlows :
             /\ TextBatchFails(f) =>
                   /\ vectorStore' = <<>>
                   /\ \A g \in textFlows' : g.id # f.id
             /\ PartialBatch(f, TextEmbedResolve) => UNCHANGED vectorStore]_vars

(***************************************************************************)
(* C14: a binary ingestion's failure is reported under its own class: the  *)
(* step that settles the race by a rejection leaves status 'idle' and as   *)
(* the error the timeout message for the timer, the no-content message for *)
(* a text without chunks, the invalid-document message for an invalid PDF, *)
(* the protected-document message for a password-protected PDF and the     *)
(* generic processing message for every other exception (a file-read       *)
(* error, a page error, an embedding failure); once the race is settled no *)
(* later step of the flow or of its timer records another message.         *)
(***************************************************************************)
Reported(message) == status' = "idle" /\ error' = message

C14_EachFailureUnderItsClass ==
    [][\A f \in pdfFlows :
          /\ f.outcome = Pending =>
                /\ TimerFire(f) => Reported(TimeoutMessage)
                /\ PdfNoChunks(f) => Reported(NoTextMessage)
                /\ GetDocumentReject(f, "InvalidPDFException") => Reported(InvalidPdfMessage)
                /\ GetDocumentReject(f, "PasswordException") => Reported(PasswordMessage)
                /\ (\/ GetDocumentReject(f, "UnknownErrorException")
                    \/ FileReaderLoad(f, FALSE)
                    \/ FileReaderError(f)
                    \/ PageReject(f)
                    \/ PdfBatchFails(f)) => Reported(FailedMessage)
          /\ (f.outcome # Pending /\ (PdfWorkStep(f) \/ TimerFire(f))) =>
                UNCHANGED error]_vars

\* a password-protected document has just been refused
C14_Witness ==
    /\ status = "idle"
    /\ error = PasswordMessage
    /\ \E f \in pdfFlows : f.outcome = "rejected" /\ f.timer = Pending

(***************************************************************************)
(* embedChunks called on its own: the requests of one batch are answered   *)
(* in any order, each with whatever the service returns, and Promise.all   *)
(* hands the answers over by the position of their request.                *)
(***************************************************************************)
MaxChunks == 3

ChunkPool == {Rep("a", 11), Rep("b", 12)}
ChunkLists == UNION {[1..n -> ChunkPool] : n \in 1..MaxChunks}

\* what embedContent may answer
ServiceEmbeddings == {<<1, 0>>, <<0, 1>>}

EmbedChunksInit ==
    /\ AppMounted
    /\ \E chunks \in ChunkLists :
          call = [fn |-> "embedChunks", chunks |-> chunks,
                  resp |-> EmbedRequests(chunks), settled |-> <<>>,
                  returned |-> FALSE, result |-> <<>>, thrown |-> Null]

EmbedChunksRunning == ~call.returned /\ call.thrown = Null

\* request k is answered with embedding; settled keeps the answers in the
\* order of their arrival
EmbedContentResolve(k, embedding) ==
    /\ EmbedChunksRunning
    /\ call.resp[k] = NoResponse
    /\ LET resp == [call.resp EXCEPT ![k] = embedding]
           c == [call EXCEPT !.resp = resp,
                             !.settled = Append(@, [request |-> k, embedding |-> embedding])]
       IN  call' = IF AllResolved(resp)
                   THEN [c EXCEPT !.returned = TRUE,
                                  !.result = embedChunksResult(call.chunks, resp)]
                   ELSE c
    /\ UNCHANGED <<session, flows, nDocs, nQueries, lastEvent>>

\* request k fails: the catch block of embedChunks throws
EmbedContentReject(k) ==
    /\ EmbedChunksRunning
    /\ call.resp[k] = NoResponse
    /\ call' = [call EXCEPT !.thrown = EmbedFailedMessage]
    /\ UNCHANGED <<session, flows, nDocs, nQueries, lastEvent>>

EmbedChunksNext ==
    \/ \E k \in 1..Len(call.resp), embedding \in ServiceEmbeddings :
          EmbedContentResolve(k, embedding)
    \/ \E k \in 1..Len(call.resp) : EmbedContentReject(k)

SpecEmbedChunks == EmbedChunksInit /\ [][EmbedChunksNext]_vars

(***************************************************************************)
(* C15: for every chunk sequence embedChunks returns one item per chunk,   *)
(* in chunk order, item i pairing chunk i with the embedding returned for  *)
(* request i, whatever the order in which the requests were answered.      *)
(***************************************************************************)
C15_ItemsPairedByPosition ==
    call.returned =>
        /\ Len(call.result) = Len(call.chunks)
        /\ \A i \in 1..Len(call.chunks) : call.result[i].content = call.chunks[i]
        /\ \A j \in 1..Len(call.settled) :
              call.result[call.settled[j].request].embedding = call.settled[j].embedding

\* a batch of three whose last request was answered first and whose first
\* request was answered last, with different embeddings
C15_Witness ==
    /\ call.returned
    /\ Len(call.chunks) = 3
    /\ call.settled[1].request = 3
    /\ call.settled[3].request = 1
    /\ call.settled[1].embedding # call.settled[3].embedding

(***************************************************************************)
(* chunkText called on its own, on texts put together from segments and    *)
(* blank-line separators.                                                  *)
(***************************************************************************)
MaxSegments == 3

\* segments: long enough; of length 10; of length 10 between two spaces;
\* eleven characters around a single newline; led by a space; blank; empty
SegmentPool ==
    { Rep("a", 11),
      Rep("b", 10),
      <<" ">> \o Rep("c", 10) \o <<" ">>,
      Rep("d", 5) \o <<"\n">> \o Rep("d", 6),
      <<" ">> \o Rep("e", 11),
      <<" ">>,
      <<>> }

\* one empty line, one line of spaces, two empty lines
SeparatorPool == { <<"\n", "\n">>, <<"\n", " ", "\t", "\n">>, <<"\n", "\n", "\n">> }

SegmentLists == UNION {[1..n -> SegmentPool] : n \in 1..MaxSegments}

\* segments[1] separators[1] segments[2] ... segments[n]
RECURSIVE TextOf(_, _)
TextOf(segments, separators) ==
    IF Len(segments) = 1 THEN segments[1]
    ELSE segments[1] \o separators[1] \o TextOf(Tail(segments), Tail(separators))

ChunkTextInit ==
    /\ AppMounted
    /\ \E segments \in SegmentLists :
          \E separators \in [1..(Len(segments) - 1) -> SeparatorPool] :
             call = [fn |-> "chunkText", segments |-> segments,
                     text |-> TextOf(segments, separators),
                     returned |-> FALSE, result |-> <<>>]

ChunkTextCall ==
    /\ ~call.returned
    /\ call' = [call EXCEPT !.returned = TRUE, !.result = chunkText(call.text)]
    /\ UNCHANGED <<session, flows, nDocs, nQueries, lastEvent>>

SpecChunkText == ChunkTextInit /\ [][ChunkTextCall]_vars

(***************************************************************************)
(* C16: for every text chunkText returns the blank-line-separated segments *)
(* in source order, keeping exactly those whose trimmed length is greater  *)
(* than 10; a text without such a segment yields zero chunks.              *)
(***************************************************************************)
\* from its first to its last character that is not white space, the
\* segment has more than ten characters
LongerThanTen(segment) ==
    LET ns == {k \in 1..Len(segment) : ~IsSpace(segment[k])}
    IN  ns # {} /\ SetMax(ns) - SetMin(ns) + 1 > 10

C16_ChunksAreTheLongSegments ==
    call.returned =>
        /\ call.result = SelectSeq(call.segments, LongerThanTen)
        /\ (\A k \in 1..Len(call.segments) : ~LongerThanTen(call.segments[k])) =>
              Len(call.result) = 0

\* three segments, the middle one dropped for its trimmed length of 10 and
\* the outer ones kept in their order
C16_Witness ==
    /\ call.returned
    /\ Len(call.segments) = 3
    /\ call.segments[1] = Rep("d", 5) \o <<"\n">> \o Rep("d", 6)
    /\ call.segments[2] = <<" ">> \o Rep("c", 10) \o <<" ">>
    /\ call.segments[3] = Rep("a", 11)
    /\ call.result = << call.segments[1], call.segments[3] >>

(***************************************************************************)
(* The vector search of queryDocument on its own: an index of up to        *)
(* MaxPassages passages, passage k being k characters long, and the        *)
(* embedding of a query.                                                   *)
(***************************************************************************)
MaxPassages == 6

Passage(k) == Rep("p", k)

\* embeddings at similarity 1, 1/sqrt(2) (twice) and -1/sqrt(2) to <<1, 0>>
StoreEmbeddings == {<<1, 0>>, <<1, 1>>, <<2, 2>>, <<-1, 1>>}
QueryEmbeddings == {<<1, 0>>, <<0, 0>>}

RetrievalInit ==
    /\ AppMounted
    /\ \E n \in 1..MaxPassages :
          \E embeddings \in [1..n -> StoreEmbeddings], queryEmbedding \in QueryEmbeddings :
             call = [fn |-> "queryDocument", queryEmbedding |-> queryEmbedding,
                     vectorStore |-> [k \in 1..n |->
                                         [content |-> Passage(k), embedding |-> embeddings[k]]],
                     returned |-> FALSE, result |-> <<>>]

\* steps 2 and 3 of queryDocument
RetrievalCall ==
    /\ ~call.returned
    /\ call' = [call EXCEPT !.returned = TRUE,
                            !.result = relevantChunks(call.queryEmbedding, call.vectorStore)]
    /\ UNCHANGED <<session, flows, nDocs, nQueries, lastEvent>>

SpecRetrieval == RetrievalInit /\ [][RetrievalCall]_vars

(***************************************************************************)
(* C17: from an index of N passages retrieval selects exactly min(5, N)    *)
(* passages, in descending order of their similarity to the query, equal   *)
(* similarities in their order of insertion: the selected passages come in *)
(* that order, and each of them comes before every passage left out.       *)
(***************************************************************************)
SimilarityOf(n) == cosineSimilarity(call.queryEmbedding, call.vectorStore[n].embedding)

\* passage m goes before passage n: it is more similar, or as similar and
\* inserted earlier
RanksBefore(m, n) ==
    \/ SimGreater(SimilarityOf(m), SimilarityOf(n))
    \/ ~SimGreater(SimilarityOf(n), SimilarityOf(m)) /\ m < n

C17_TopFiveByStableDescendingSimilarity ==
    call.returned =>
        LET N == Len(call.vectorStore)
            selected == [i \in 1..Len(call.result) |-> Len(call.result[i])]
        IN  /\ Len(selected) = IF N < 5 THEN N ELSE 5
            /\ \A i \in 1..Len(selected) :
                  /\ selected[i] \in 1..N
                  /\ call.result[i] = call.vectorStore[selected[i]].content
            /\ \A i, j \in 1..Len(selected) :
                  i < j => RanksBefore(selected[i], selected[j])
            /\ \A n \in (1..N) \ Range(selected) :
                  \A i \in 1..Len(selected) : RanksBefore(selected[i], n)

\* six passages: the third is the most similar, four are equally similar
\* and keep their order, and the first, the least similar, is left out
C17_Witness ==
    /\ call.returned
    /\ call.queryEmbedding = <<1, 0>>
    /\ [k \in 1..Len(call.vectorStore) |-> call.vectorStore[k].embedding]
          = << <<-1, 1>>, <<2, 2>>, <<1, 0>>, <<1, 1>>, <<1, 1>>, <<2, 2>> >>
    /\ call.result = << Passage(3), Passage(2), Passage(4), Passage(5), Passage(6) >>

(***************************************************************************)
(* cosineSimilarity called on its own, on two vectors of equal length.     *)
(***************************************************************************)
MaxDim == 2

Components == {-1, 0, 1}

CosineInit ==
    /\ AppMounted
    /\ \E n \in 1..MaxDim :
          \E vecA \in [1..n -> Components], vecB \in [1..n -> Components] :
             call = [fn |-> "cosineSimilarity", vecA |-> vecA, vecB |-> vecB,
                     returned |-> FALSE, result |-> [num |-> 0, den2 |-> 1]]

CosineCall ==
    /\ ~call.returned
    /\ call' = [call EXCEPT !.returned = TRUE,
                            !.result = cosineSimilarity(call.vecA, call.vecB)]
    /\ UNCHANGED <<session, flows, nDocs, nQueries, lastEvent>>

SpecCosine == CosineInit /\ [][CosineCall]_vars

(***************************************************************************)
(* C18: cosineSimilarity never divides by zero, and it returns 0 whenever  *)
(* one of its two vectors, or both, have zero magnitude.                   *)
(***************************************************************************)
\* a vector has zero magnitude when all its components are 0
ZeroMagnitude(vec) == \A i \in 1..Len(vec) : vec[i] = 0

C18_ZeroMagnitudeGivesZero ==
    call.returned =>
        /\ call.result.den2 # 0
        /\ (ZeroMagnitude(call.vecA) \/ ZeroMagnitude(call.vecB)) => call.result.num = 0

\* the second vector alone has zero magnitude
C18_Witness ==
    /\ call.returned
    /\ ~ZeroMagnitude(call.vecA)
    /\ ZeroMagnitude(call.vecB)
    /\ Len(call.vecB) = 2
    /\ call.result.num = 0

(***************************************************************************)
(* One binary ingestion, page by page: canvas.getContext('2d') yields a    *)
(* context or null (a canvas the browser cannot back), and a page without  *)
(* a context is not rendered.                                              *)
(***************************************************************************)
PagesNext ==
    \/ \E file \in Files \cup {FileC} : nDocs = 0 /\ handleFileSelect(file)
    \/ \E f \in pdfFlows : FileReaderLoad(f, TRUE)
    \/ \E f \in pdfFlows : GetDocumentResolve(f)
    \/ \E f \in pdfFlows : GetPageResolve(f)
    \/ \E f \in pdfFlows, hasContext \in BOOLEAN : GetTextContentResolve(f, hasContext)
    \/ \E f \in pdfFlows : RenderResolve(f)
    \/ \E f \in pdfFlows : PageReject(f)
    \/ \E f \in pdfFlows : \E k \in 1..Len(f.resp) : PdfEmbedResolve(f, k)
    \/ \E f \in pdfFlows : \E k \in 1..Len(f.resp) : PdfEmbedReject(f, k)
    \/ \E f \in pdfFlows : TimerFire(f)

SpecPages == Init /\ [][PagesNext]_vars

(***************************************************************************)
(* C19: in a binary ingestion the pages are processed one after another in *)
(* page order 1..numPages: at every point of the loop the full text is the *)
(* texts of the pages read so far, concatenated in page order, and the     *)
(* image sequence holds the rasters of the pages gone through so far, in   *)
(* page order, image i belonging to page i.                                *)
(***************************************************************************)
\* the text of pages 1..n of a file as the loop accumulates it
RECURSIVE TextOfPages(_, _)
TextOfPages(name, n) ==
    IF n = 0 THEN <<>>
    ELSE TextOfPages(name, n - 1) \o Join(FilePages(name)[n], <<" ">>) \o <<"\n", "\n">>

InPageLoop(f) == f.pc \in {"getPage", "getTextContent", "render"}

\* the pages whose text has been read, and those gone through entirely
PagesRead(f) == IF f.pc = "render" THEN f.page ELSE f.page - 1
PagesPassed(f) == f.page - 1

C19_PagesInOrder ==
    \A f \in pdfFlows :
       /\ InPageLoop(f) =>
             /\ f.page \in 1..Len(FilePages(f.file))
             /\ f.fullText = TextOfPages(f.file, PagesRead(f))
             /\ Len(f.images) = PagesPassed(f)
       /\ f.pc = "embed" =>
             /\ f.fullText = TextOfPages(f.file, Len(FilePages(f.file)))
             /\ Len(f.images) = Len(FilePages(f.file))
       /\ \A i \in 1..Len(f.images) : f.images[i] = Image(f.file, i)

(***************************************************************************)
(* The session with service calls that settle: the promise of a           *)
(* queryDocument call is resolved with an answer or rejected in the end,   *)
(* so a settling step that stays possible is taken.                        *)
(***************************************************************************)
QuerySettles ==
    \E q \in queryFlows :
       \/ QueryReject(q)
       \/ \E answer \in Answers : GenerateResolve(q, answer)

SpecLive == Spec /\ WF_vars(QuerySettles)

(***************************************************************************)
(* C20: every query that has entered 'querying' eventually brings status   *)
(* back to 'ready', by its answer or by its failure, given that its calls  *)
(* settle in the end and unless a reset comes in between.                  *)
(***************************************************************************)
QueryInFlight(id) == \E q \in queryFlows : q.id = id

QueryReturned(id) == ~QueryInFlight(id) /\ status = "ready"

C20_QueryingLeadsToReady ==
    \A id \in 1..MaxQueries :
       QueryInFlight(id) ~> (QueryReturned(id) \/ lastEvent = "clear")

\* a query has failed and the session is 'ready' again
C20_Witness ==
    /\ status = "ready"
    /\ queryFlows = {}
    /\ nQueries > 0
    /\ error = QueryErrorNotice
    /\ Len(chatHistory) = 3
    /\ chatHistory[2].sender = "user"
    /\ chatHistory[3] = Message("ai", ApologyText)

(***************************************************************************)
(* C21: every binary ingestion settles in 'ready' or 'idle' and stays out  *)
(* of 'parsing' and 'indexing' from then on: the step that settles its     *)
(* race leaves status 'ready' or 'idle', and no later step of the          *)
(* ingestion or of its timer takes status to 'parsing' or 'indexing'.      *)
(***************************************************************************)
\* the race of f is settled in this step, by its work or by its timer
PdfSettles(f) ==
    /\ f \in pdfFlows
    /\ f.outcome = Pending
    /\ \E g \in pdfFlows' : g.id = f.id /\ g.outcome # Pending

\* a step of f, or of its timer, after its race was settled
PdfLateStep(f) ==
    /\ f \in pdfFlows
    /\ f.outcome # Pending
    /\ (PdfWorkStep(f) \/ TimerFire(f))

C21_SettledIngestionStaysSettled ==
    [][\A f \in pdfFlows :
          /\ PdfSettles(f) => status' \in {"ready", "idle"}
          /\ PdfLateStep(f) =>
                (status' \in {"parsing", "indexing"} => status' = status)]_vars

(***************************************************************************)
(* C22: in every reachable state status is 'ready' or 'querying' if and    *)
(* only if documentLoaded is true, and in those states the vector store is *)
(* not empty, also after a reset taken while a query was in flight.        *)
(***************************************************************************)
C22_ReadyIffDocumentLoaded ==
    /\ (status \in {"ready", "querying"}) <=> documentLoaded
    /\ status \in {"ready", "querying"} => vectorStore # <<>>

(***************************************************************************)
(* C23: whenever status is 'ready' or 'querying', documentTitle,           *)
(* vectorStore, pdfImages and the acknowledgment all come from one         *)
(* submission, the one that set the title: a file's name goes with the     *)
(* file's passages, its page images and the acknowledgment naming it, and  *)
(* 'Pasted Text' goes with the text's passages, no page image and the      *)
(* acknowledgment of the text.                                             *)
(***************************************************************************)
\* the index a successful ingestion of chunks leaves
IndexOf(chunks) ==
    [k \in 1..Len(chunks) |->
        [content |-> chunks[k], embedding |-> EmbeddingOf(chunks[k])]]

AllFrom(title, chunks, images, ack) ==
    /\ documentTitle = title
    /\ vectorStore = IndexOf(chunks)
    /\ pdfImages = images
    /\ chatHistory # <<>>
    /\ chatHistory[1] = ack

FromFile(file) ==
    AllFrom(file.name,
            chunkText(TextOfPages(file.name, Len(file.pages))),
            [i \in 1..Len(file.pages) |-> Image(file.name, i)],
            PdfAck(file.name))

FromText(textContent) ==
    AllFrom("Pasted Text", chunkText(Trim(textContent)), <<>>, TextAck)

C23_SessionDataFromOneSubmission ==
    status \in {"ready", "querying"} =>
        \/ \E file \in Files : FromFile(file)
        \/ \E textContent \in Texts : FromText(textContent)

(***************************************************************************)
(* C24: whenever status is 'ready', the transcript is the acknowledgment   *)
(* from 'ai' followed by pairs of one user message and one ai message, in  *)
(* strict alternation.                                                     *)
(***************************************************************************)
Acknowledgments == {TextAck} \cup {PdfAck(file.name) : file \in Files}

C24_TranscriptAlternates ==
    status = "ready" =>
        /\ Len(chatHistory) % 2 = 1
        /\ chatHistory[1] \in Acknowledgments
        /\ \A k \in 2..Len(chatHistory) :
              chatHistory[k].sender = IF k % 2 = 0 THEN "user" ELSE "ai"

(***************************************************************************)
(* C25: the ingestion timer is never cancelled, and once the extraction    *)
(* and indexing flow has settled the race (by resolving or by rejecting),  *)
(* the timer firing later changes none of status, error, vectorStore,      *)
(* pdfImages, chatHistory, documentLoaded and documentTitle, whatever the  *)
(* session is doing at that moment.                                        *)
(***************************************************************************)
ProcessingWon(f) == f \in pdfFlows /\ f.outcome \in {"resolved", "rejected"}

LateTimer(f) == ProcessingWon(f) /\ TimerFire(f)

C25_LateTimerChangesNothing ==
    [][\A f \in pdfFlows : LateTimer(f) => UNCHANGED session]_vars

\* the first upload was indexed without any timeout, its flow is over (so its
\* timer has fired since), and a query is in flight
C25_Witness ==
    /\ nDocs = 1
    /\ pdfFlows = {}
    /\ documentLoaded
    /\ documentTitle = FileA.name
    /\ error = Null
    /\ status = "querying"
    /\ queryFlows # {}

====
